---- MODULE Spec2Model ----
(***************************************************************************)
(* MOSDAC knowledge-graph loader                                           *)
(* (src/ML_microservices/mosdac_graph_loader.py).                          *)
(*                                                                         *)
(* The loader is a single-threaded program.  The model follows its control *)
(* flow with a program counter (pc) and a stack of return labels; every    *)
(* answer of the outside world (the Neo4j session, the Graphiti client,    *)
(* the file system) is chosen with \E when the call is made.               *)
(***************************************************************************)
EXTENDS Naturals, Sequences, FiniteSets

(***************************************************************************)
(* Bounds of the model and constants of the program.                       *)
(***************************************************************************)
\* Longest dataset file (number of array elements) the model reads.
MaxRecords == 2

\* How many times a caller awaits initialize_graphiti on one loader (SpecBoot).
MaxBootstraps == 2

\* faq.get('question', 'Unknown')[:50]
FaqNameLen == 50

\* len(methods) in _try_create_database
NumCreateMethods == 4

(***************************************************************************)
(* JSON values.  A string is a sequence of characters, so that slicing is  *)
(* a real operation; the other values are tagged atoms.                    *)
(***************************************************************************)
Str(chars) == [t |-> "str", s |-> chars]
Lit(word) == Str(<<word>>)
Null == [t |-> "null", s |-> <<>>]
EmptyList == [t |-> "list", s |-> <<>>]
EmptyDict == [t |-> "dict", s |-> <<>>]
IntSeven == [t |-> "int", s |-> <<"7">>]
TagList == [t |-> "list", s |-> <<"tag">>]
SpecDict == [t |-> "dict", s |-> <<"k">>]

\* str(x) inside an f-string
Format(v) ==
    CASE v.t = "str" -> v.s
      [] v.t = "null" -> <<"None">>
      [] v.t = "int" -> v.s
      [] v.t = "list" -> <<"[">> \o v.s \o <<"]">>
      [] OTHER -> <<"{">> \o v.s \o <<"}">>

\* x[:n] is defined for strings and lists; None[:n] and 7[:n] raise TypeError
Sliceable(v) == v.t \in {"str", "list"}

Min(a, b) == IF a <= b THEN a ELSE b

Slice(v, n) == [v EXCEPT !.s = SubSeq(v.s, 1, Min(n, Len(v.s)))]

(***************************************************************************)
(* Array elements of a dataset file.  A mapping is a function from its     *)
(* keys to values; anything else (a string, a number, a list) has no .get. *)
(***************************************************************************)
EmptyMap == [k \in {} |-> Null]
Mapping(m) == [isMap |-> TRUE, m |-> m]
NotMapping == [isMap |-> FALSE, m |-> EmptyMap]

\* dict.get(key, default)
Get(e, key, default) == IF key \in DOMAIN e.m THEN e.m[key] ELSE default

\* A dict display {k1: v1, k2: v2, ...}: a key written twice keeps its last value.
DictLiteral(pairs) ==
    [k \in {pairs[j][1] : j \in DOMAIN pairs} |->
        LET last == CHOOSE j \in DOMAIN pairs :
                        /\ pairs[j][1] = k
                        /\ \A h \in DOMAIN pairs : pairs[h][1] = k => h <= j
        IN pairs[last][2]]

\* DATASETS, in the order of DATASETS.keys()
DatasetOrder == <<"satellites", "products", "documents", "mission_metadata", "faqs">>

DATASETS == {DatasetOrder[j] : j \in DOMAIN DatasetOrder}

\* The key each loader prints and names the episode by.
IdentityKey(kind) ==
    CASE kind = "satellites" -> "name"
      [] kind = "products" -> "name"
      [] kind = "documents" -> "title"
      [] kind = "mission_metadata" -> "mission"
      [] OTHER -> "question"

\* The default of the progress line (first statement of each try block).
PrintDefault(kind) ==
    CASE kind = "products" -> Lit("Unknown Product")
      [] kind = "documents" -> Lit("Unknown Document")
      [] OTHER -> Lit("Unknown")

\* The value the loader shows for a record: sat.get('name', 'Unknown'),
\* and for FAQs faq.get('question', 'Unknown')[:50].
Shown(kind, e, default) ==
    LET v == Get(e, IdentityKey(kind), default)
    IN IF kind = "faqs" THEN Slice(v, FaqNameLen) ELSE v

\* Whether evaluating that expression raises (AttributeError or TypeError).
ShownRaises(kind, e, default) ==
    \/ ~e.isMap
    \/ kind = "faqs" /\ ~Sliceable(Get(e, IdentityKey(kind), default))

NamePrefix(kind) ==
    CASE kind = "satellites" -> "Satellite Mission: "
      [] kind = "products" -> "Data Product: "
      [] kind = "documents" -> "Document: "
      [] kind = "mission_metadata" -> "Mission Metadata: "
      [] OTHER -> "FAQ: "

\* faulty variant: the episode name is the bare identity field, without prefix
\* or placeholder
EpisodeName_BareIdentity(kind, e) == Format(Get(e, IdentityKey(kind), Str(<<>>)))

\* name=f"...: {x.get(key, 'Unknown')}"
EpisodeName(kind, e) == <<NamePrefix(kind)>> \o Format(Shown(kind, e, Lit("Unknown")))

\* episode_data of each loader
EpisodeData(kind, e) ==
    CASE kind = "satellites" ->
            DictLiteral(<<<<"type", Lit("satellite_mission")>>,
                          <<"name", Get(e, "name", Null)>>,
                          <<"url", Get(e, "url", Null)>>,
                          <<"description", Get(e, "description", Null)>>,
                          <<"documents", Get(e, "documents", EmptyList)>>,
                          <<"category", Lit("satellite")>>>>)
      [] kind = "products" ->
            DictLiteral(<<<<"type", Lit("data_product")>>,
                          <<"name", Get(e, "name", Null)>>,
                          <<"category", Get(e, "category", Null)>>,
                          <<"description", Get(e, "description", Null)>>,
                          <<"url", Get(e, "url", Null)>>,
                          <<"specifications", Get(e, "specifications", EmptyDict)>>,
                          <<"download_info", Get(e, "download_info", EmptyDict)>>,
                          <<"related_satellites", Get(e, "satellites", EmptyList)>>>>)
      [] kind = "documents" ->
            DictLiteral(<<<<"type", Lit("documentation")>>,
                          <<"title", Get(e, "title", Null)>>,
                          <<"url", Get(e, "url", Null)>>,
                          <<"file_type", Get(e, "file_type", Null)>>,
                          <<"size", Get(e, "size", Null)>>,
                          <<"description", Get(e, "description", Null)>>,
                          <<"related_mission", Get(e, "mission", Null)>>,
                          <<"category", Lit("documentation")>>>>)
      [] kind = "mission_metadata" ->
            DictLiteral(<<<<"type", Lit("mission_metadata")>>,
                          <<"mission", Get(e, "mission", Null)>>,
                          <<"sensors", Get(e, "sensors", EmptyList)>>,
                          <<"launch_date", Get(e, "launch_date", Null)>>,
                          <<"agency", Get(e, "agency", Null)>>,
                          <<"orbit_type", Get(e, "orbit_type", Null)>>,
                          <<"applications", Get(e, "applications", EmptyList)>>,
                          <<"technical_specs", Get(e, "technical_specs", EmptyDict)>>,
                          <<"category", Lit("metadata")>>>>)
      [] OTHER ->
            DictLiteral(<<<<"type", Lit("faq")>>,
                          <<"question", Get(e, "question", Null)>>,
                          <<"answer", Get(e, "answer", Null)>>,
                          <<"category", Get(e, "category", Lit("general"))>>,
                          <<"tags", Get(e, "tags", EmptyList)>>,
                          <<"url", Get(e, "url", Null)>>,
                          <<"category", Lit("faq")>>>>)

(***************************************************************************)
(* Statements sent through the Neo4j session, and the backend's answers.   *)
(* An error message is the set of the words the code looks for in it.      *)
(***************************************************************************)
QSession == "driver.session()"
QVersion == "CALL dbms.components()"
QShow == "SHOW DATABASES"
QTest == "RETURN 1 as test"
QWipe == "MATCH (n) DETACH DELETE n"
QCreateMosdac == "CREATE DATABASE mosdac_db"
QNodeCount == "MATCH (n) RETURN count(n) as node_count"
QRelCount == "MATCH ()-[r]-() RETURN count(r) as rel_count"

\* methods of _try_create_database, in order; the quoting characters of the
\* statements are spelled out
CreateMethods ==
    <<"CREATE DATABASE [backtick]default_db[backtick]",
      "CREATE DATABASE default_db",
      "CREATE DATABASE [quote]default_db[quote]",
      "CREATE DATABASE [double quote]default_db[double quote]">>

Ok(rows, status) == [r |-> "ok", v |-> rows, st |-> status]
Raise(words) == [r |-> "raise", v |-> words, st |-> ""]
Done == Ok({}, "")

ErrorMessages ==
    {{"already exists"}, {"illegal", "character"}, {"unsupported"}, {"connection"}}

Raises == {Raise(m) : m \in ErrorMessages}

VersionAnswers == {Ok({"Enterprise"}, ""), Raise({"connection"})}

ListingAnswers ==
    {Ok({"neo4j", "system"}, ""), Ok({"neo4j", "system", "default_db"}, "online")} \cup Raises

\* the rows of the second SHOW DATABASES; st is the row's currentStatus,
\* "" when the row has no such key
PollAnswers ==
    {Ok({"neo4j", "system", "default_db"}, "online"),
     Ok({"neo4j", "system", "default_db"}, "offline"),
     Ok({"neo4j", "system", "default_db"}, ""),
     Ok({"neo4j", "system"}, ""),
     Raise({"connection"})}

TestAnswers == {Ok({"1"}, ""), Ok({"0"}, ""), Raise({"connection"})}

StatementAnswers == {Done, Raise({"connection"})}

CreateAnswers == {Done} \cup Raises

BuildAnswers == {Done, Raise({"database", "default_db"}), Raise({"connection"})}

(***************************************************************************)
(* State.                                                                  *)
(***************************************************************************)
VARIABLES
    pc,               \* the statement the program is at
    stack,            \* return labels of the calls in progress
    ret,              \* the value the last call returned
    exc,              \* the exception that left the entry point, "" if none
    graphiti,         \* self.graphiti: index into clients
    clients,          \* every Graphiti instance made: [built, closes]
    driver,           \* self.driver: "None" or "driver"
    using_default_db, \* self.using_default_db
    reference_time,   \* self.reference_time
    neo4j_edition,    \* local of setup_neo4j_database
    attempt,          \* loop variable i of _try_create_database
    queries,          \* statements run on the current session, with their answers
    builds,           \* build_indices_and_constraints calls of the bootstrap
    dsIdx,            \* position of load_all_datasets in DATASETS.keys()
    total_loaded,     \* local of load_all_datasets
    reported,         \* the "Successfully loaded x/y" line, <<>> before it is printed
    dataset_name,     \* argument of load_dataset
    data,             \* local of load_dataset: the parsed file
    i,                \* loop index of the running loader
    episodes,         \* add_episode calls of the running loader
    anyEpisode,       \* some episode was submitted in this run
    fileOps,          \* file-system calls made so far
    exitPath,         \* how load_all_datasets was left
    closeLog,         \* close calls made by MOSDACGraphLoader.close
    backendAnswered,  \* the backend answered some query or index build without error
    bootHist          \* earlier bootstraps of this loader: did each find default_db,
                      \* build the indices and return True

vars ==
    <<pc, stack, ret, exc, graphiti, clients, driver, using_default_db,
      reference_time, neo4j_edition, attempt, queries, builds, dsIdx,
      total_loaded, reported, dataset_name, data, i, episodes, anyEpisode,
      fileOps, exitPath, closeLog, backendAnswered, bootHist>>

\* what the harness specifications leave alone
harnessVars == <<bootHist>>

loaderFields == <<graphiti, clients, driver, using_default_db, reference_time>>

negotiationVars == <<neo4j_edition, attempt, queries, builds>>

datasetVars ==
    <<dsIdx, total_loaded, reported, dataset_name, data, i, episodes,
      anyEpisode, fileOps>>

endVars == <<exc, exitPath, closeLog>>

logVars == <<queries, builds, backendAnswered>>

\* no call is in progress: every local is unset, nothing was logged
NoLocals ==
    /\ neo4j_edition = ""
    /\ attempt = 0
    /\ queries = <<>>
    /\ builds = <<>>
    /\ dsIdx = 0
    /\ total_loaded = 0
    /\ reported = <<>>
    /\ data = <<>>
    /\ i = 0
    /\ episodes = <<>>
    /\ anyEpisode = FALSE
    /\ fileOps = <<>>
    /\ exc = ""
    /\ exitPath = "running"
    /\ closeLog = <<>>
    /\ bootHist = <<>>
    /\ ret = FALSE

\* MOSDACGraphLoader.__init__ has run
Constructed ==
    /\ graphiti = 1
    /\ clients = <<[built |-> FALSE, closes |-> 0]>>
    /\ driver = "None"
    /\ using_default_db = FALSE
    /\ reference_time = "run_start"
    /\ backendAnswered = FALSE

\* main() has constructed the loader and is about to await load_all_datasets
Init ==
    /\ Constructed
    /\ NoLocals
    /\ dataset_name = ""
    /\ pc = "load_all_datasets"
    /\ stack = <<"main_finally">>

\* a call returns val to the label on top of the stack
Return(val) ==
    /\ pc' = Head(stack)
    /\ stack' = Tail(stack)
    /\ ret' = val

Call(label, back) ==
    /\ pc' = label
    /\ stack' = <<back>> \o stack

Ran(q, a) == Append(queries, [q |-> q, a |-> a])

Has(a, word) == word \in a.v

\* backendAnswered after the statements added to the log in this step
Answered(log) ==
    \/ backendAnswered
    \/ \E j \in (Len(queries) + 1)..Len(log) : log[j].q # QSession /\ log[j].a.r = "ok"

(***************************************************************************)
(* load_all_datasets, first lines: call initialize_graphiti.               *)
(***************************************************************************)
\* faulty variant: load_all_datasets starts on the datasets without the bootstrap
LoadAllDatasets_NoBootstrap ==
    /\ pc = "load_all_datasets"
    /\ total_loaded' = 0
    /\ dsIdx' = 1
    /\ dataset_name' = DatasetOrder[1]
    /\ Call("load_dataset", "after_load_dataset")
    /\ UNCHANGED <<ret, loaderFields, negotiationVars, reported, data, i, episodes,
                   anyEpisode, fileOps, endVars, backendAnswered, harnessVars>>

LoadAllDatasets ==
    /\ pc = "load_all_datasets"
    /\ Call("initialize_graphiti", "after_initialize")
    /\ UNCHANGED <<ret, loaderFields, negotiationVars, datasetVars, endVars,
                   backendAnswered, harnessVars>>

(***************************************************************************)
(* initialize_graphiti calls setup_neo4j_database: a driver is made, a     *)
(* session opened and the version query run.  A session that cannot be     *)
(* opened is caught by the outer handler of setup_neo4j_database, which    *)
(* returns False, and initialize_graphiti returns False in turn.           *)
(***************************************************************************)
\* faulty variant: a failing version query is caught by the outer handler of
\* setup_neo4j_database
SetupNeo4jDatabase_VersionFatal ==
    /\ pc = "initialize_graphiti"
    /\ driver' = "driver"
    /\ \E sessionOk \in BOOLEAN, a \in VersionAnswers :
          IF sessionOk /\ a.r = "ok"
          THEN /\ queries' = Append(Ran(QSession, Done), [q |-> QVersion, a |-> a])
               /\ neo4j_edition' = "Enterprise"
               /\ pc' = "show_databases"
               /\ UNCHANGED <<stack, ret>>
          ELSE /\ queries' = IF sessionOk
                               THEN Append(Ran(QSession, Done), [q |-> QVersion, a |-> a])
                               ELSE Ran(QSession, Raise({"connection"}))
               /\ Return(FALSE)
               /\ UNCHANGED neo4j_edition
    /\ backendAnswered' = Answered(queries')
    /\ UNCHANGED <<graphiti, clients, using_default_db, reference_time, attempt,
                   builds, datasetVars, endVars, harnessVars>>

SetupNeo4jDatabase ==
    /\ pc = "initialize_graphiti"
    /\ driver' = "driver"
    /\ \E sessionOk \in BOOLEAN, a \in VersionAnswers :
          IF sessionOk
          THEN /\ queries' = Append(Ran(QSession, Done), [q |-> QVersion, a |-> a])
               /\ neo4j_edition' = IF a.r = "ok" THEN "Enterprise" ELSE "Community"
               /\ pc' = "show_databases"
               /\ UNCHANGED <<stack, ret>>
          ELSE /\ queries' = Ran(QSession, Raise({"connection"}))
               /\ Return(FALSE)
               /\ UNCHANGED neo4j_edition
    /\ backendAnswered' = Answered(queries')
    /\ UNCHANGED <<graphiti, clients, using_default_db, reference_time, attempt,
                   builds, datasetVars, endVars, harnessVars>>

\* faulty variant: load_all_datasets goes on whatever initialize_graphiti returned
InitializeFailed_Ignored(result) == FALSE

\* faulty variant: load_all_datasets tests the result of initialize_graphiti the wrong
\* way round
InitializeFailed_Inverted(result) == result

\* "if not await self.initialize_graphiti():" in load_all_datasets
InitializeFailed(result) == ~result

\* faulty variant: the existence check of setup_neo4j_database never finds default_db
DefaultDbMissing_Always(databases) == TRUE

\* "default_db" not in databases
DefaultDbMissing(databases) == "default_db" \notin databases

\* faulty variant: a failing listing leads to the whole workaround tier
ShowDatabases_ErrorToWorkarounds ==
    /\ pc = "show_databases"
    /\ \E a \in ListingAnswers :
          /\ queries' = Ran(QShow, a)
          /\ IF a.r = "raise"
             THEN /\ Call("try_workarounds", "setup_return")
                  /\ UNCHANGED <<ret, attempt>>
             ELSE IF DefaultDbMissing(a.v)
             THEN /\ Call("try_create_database", "after_create")
                  /\ attempt' = 1
                  /\ UNCHANGED ret
             ELSE /\ pc' = "setup_return"
                  /\ ret' = TRUE
                  /\ UNCHANGED <<stack, attempt>>
    /\ backendAnswered' = Answered(queries')
    /\ UNCHANGED <<loaderFields, neo4j_edition, builds, datasetVars, endVars, harnessVars>>

\* setup_neo4j_database: SHOW DATABASES and the existence check
ShowDatabases ==
    /\ pc = "show_databases"
    /\ \E a \in ListingAnswers :
          /\ queries' = Ran(QShow, a)
          /\ IF a.r = "raise"
             THEN /\ Call("handle_community_edition", "setup_return")
                  /\ UNCHANGED <<ret, attempt>>
             ELSE IF DefaultDbMissing(a.v)
             THEN /\ Call("try_create_database", "after_create")
                  /\ attempt' = 1
                  /\ UNCHANGED ret
             ELSE /\ pc' = "setup_return"
                  /\ ret' = TRUE
                  /\ UNCHANGED <<stack, attempt>>
    /\ backendAnswered' = Answered(queries')
    /\ UNCHANGED <<loaderFields, neo4j_edition, builds, datasetVars, endVars, harnessVars>>

\* faulty variant: the loop of _try_create_database goes on to the next
\* statement after one that did not raise
TryCreateDatabase_NoStopOnSuccess ==
    /\ pc = "try_create_database"
    /\ \E a \in CreateAnswers :
          /\ queries' = Ran(CreateMethods[attempt], a)
          /\ IF a.r = "ok" /\ attempt = NumCreateMethods
             THEN /\ pc' = "poll_status"
                  /\ UNCHANGED <<stack, ret, attempt>>
             ELSE IF a.r = "raise" /\ Has(a, "already exists")
             THEN /\ Return(TRUE)
                  /\ UNCHANGED attempt
             ELSE IF attempt = NumCreateMethods
             THEN /\ pc' = IF Has(a, "illegal") /\ Has(a, "character")
                             THEN "try_workarounds"
                           ELSE IF Has(a, "unsupported") \/ Has(a, "community")
                             THEN "handle_community_edition"
                           ELSE "try_workarounds"
                  /\ UNCHANGED <<stack, ret, attempt>>
             ELSE /\ attempt' = attempt + 1
                  /\ UNCHANGED <<pc, stack, ret>>
    /\ backendAnswered' = Answered(queries')
    /\ UNCHANGED <<loaderFields, neo4j_edition, builds, datasetVars, endVars, harnessVars>>

\* faulty variant: _try_create_database without the "already exists" branch
TryCreateDatabase_ExistsIsError ==
    /\ pc = "try_create_database"
    /\ \E a \in CreateAnswers :
          /\ queries' = Ran(CreateMethods[attempt], a)
          /\ IF a.r = "ok"
             THEN /\ pc' = "poll_status"
                  /\ UNCHANGED <<stack, ret, attempt>>
             ELSE IF attempt = NumCreateMethods
             THEN /\ pc' = IF Has(a, "illegal") /\ Has(a, "character")
                             THEN "try_workarounds"
                           ELSE IF Has(a, "unsupported") \/ Has(a, "community")
                             THEN "handle_community_edition"
                           ELSE "try_workarounds"
                  /\ UNCHANGED <<stack, ret, attempt>>
             ELSE /\ attempt' = attempt + 1
                  /\ UNCHANGED <<pc, stack, ret>>
    /\ backendAnswered' = Answered(queries')
    /\ UNCHANGED <<loaderFields, neo4j_edition, builds, datasetVars, endVars, harnessVars>>

\* faulty variant: a last attempt rejected for an illegal character ends
\* _try_create_database with False
TryCreateDatabase_NameRejectedFails ==
    /\ pc = "try_create_database"
    /\ \E a \in CreateAnswers :
          /\ queries' = Ran(CreateMethods[attempt], a)
          /\ IF a.r = "ok"
             THEN /\ pc' = "poll_status"
                  /\ UNCHANGED <<stack, ret, attempt>>
             ELSE IF Has(a, "already exists")
             THEN /\ Return(TRUE)
                  /\ UNCHANGED attempt
             ELSE IF attempt = NumCreateMethods
             THEN IF Has(a, "illegal") /\ Has(a, "character")
                  THEN /\ Return(FALSE)
                       /\ UNCHANGED attempt
                  ELSE /\ pc' = IF Has(a, "unsupported") \/ Has(a, "community")
                                  THEN "handle_community_edition"
                                  ELSE "try_workarounds"
                       /\ UNCHANGED <<stack, ret, attempt>>
             ELSE /\ attempt' = attempt + 1
                  /\ UNCHANGED <<pc, stack, ret>>
    /\ backendAnswered' = Answered(queries')
    /\ UNCHANGED <<loaderFields, neo4j_edition, builds, datasetVars, endVars, harnessVars>>

\* one pass of the loop of _try_create_database, up to the sleep
TryCreateDatabase ==
    /\ pc = "try_create_database"
    /\ \E a \in CreateAnswers :
          /\ queries' = Ran(CreateMethods[attempt], a)
          /\ IF a.r = "ok"
             THEN /\ pc' = "poll_status"
                  /\ UNCHANGED <<stack, ret, attempt>>
             ELSE IF Has(a, "already exists")
             THEN /\ Return(TRUE)
                  /\ UNCHANGED attempt
             ELSE IF attempt = NumCreateMethods
             THEN /\ pc' = IF Has(a, "illegal") /\ Has(a, "character")
                             THEN "try_workarounds"
                           ELSE IF Has(a, "unsupported") \/ Has(a, "community")
                             THEN "handle_community_edition"
                           ELSE "try_workarounds"
                  /\ UNCHANGED <<stack, ret, attempt>>
             ELSE /\ attempt' = attempt + 1
                  /\ UNCHANGED <<pc, stack, ret>>
    /\ backendAnswered' = Answered(queries')
    /\ UNCHANGED <<loaderFields, neo4j_edition, builds, datasetVars, endVars, harnessVars>>

\* the verification after a CREATE DATABASE that did not raise
PollResult(a) ==
    IF a.r = "raise" THEN TRUE
    ELSE IF ~Has(a, "default_db") THEN TRUE
    ELSE (IF a.st = "" THEN "unknown" ELSE a.st) = "online"

PollStatus ==
    /\ pc = "poll_status"
    /\ \E a \in PollAnswers :
          /\ queries' = Ran(QShow, a)
          /\ Return(PollResult(a))
    /\ backendAnswered' = Answered(queries')
    /\ UNCHANGED <<loaderFields, neo4j_edition, attempt, builds, datasetVars,
                   endVars, harnessVars>>

\* faulty variant: the fallback handlers do not look at the connectivity test
TestPassed_Unchecked(a) == TRUE

\* test_result.single()["test"] == 1
TestPassed(a) == a.r = "ok" /\ Has(a, "1")

\* faulty variant: _try_workarounds creates mosdac_db first and falls back to
\* the default database only when that fails
TryWorkarounds_AlternateFirst ==
    /\ pc = "try_workarounds"
    /\ \E a1 \in TestAnswers, a2 \in StatementAnswers, a3 \in CreateAnswers :
          LET log1 == Ran(QCreateMosdac, a3)
              done1 == a3.r = "ok"
              log2 == IF done1 THEN log1 ELSE Append(log1, [q |-> QTest, a |-> a1])
              log3 == IF ~done1 /\ TestPassed(a1)
                      THEN Append(log2, [q |-> QWipe, a |-> a2]) ELSE log2
              done2 == ~done1 /\ TestPassed(a1) /\ a2.r = "ok"
          IN /\ queries' = log3
             /\ using_default_db' = (using_default_db \/ (~done1 /\ TestPassed(a1)))
             /\ IF done1 \/ done2
                THEN Return(TRUE)
                ELSE /\ pc' = "handle_community_edition"
                     /\ UNCHANGED <<stack, ret>>
    /\ backendAnswered' = Answered(queries')
    /\ UNCHANGED <<graphiti, clients, driver, reference_time, neo4j_edition, attempt,
                   builds, datasetVars, endVars, harnessVars>>

\* _try_workarounds: the default database, then mosdac_db, then the community
\* edition handler
TryWorkarounds ==
    /\ pc = "try_workarounds"
    /\ \E a1 \in TestAnswers, a2 \in StatementAnswers, a3 \in CreateAnswers :
          LET log1 == Ran(QTest, a1)
              log2 == IF TestPassed(a1) THEN Append(log1, [q |-> QWipe, a |-> a2]) ELSE log1
              done1 == TestPassed(a1) /\ a2.r = "ok"
              log3 == IF done1 THEN log2
                      ELSE Append(log2, [q |-> QCreateMosdac, a |-> a3])
              done2 == ~done1 /\ a3.r = "ok"
          IN /\ queries' = log3
             /\ using_default_db' = (using_default_db \/ TestPassed(a1))
             /\ IF done1 \/ done2
                THEN Return(TRUE)
                ELSE /\ pc' = "handle_community_edition"
                     /\ UNCHANGED <<stack, ret>>
    /\ backendAnswered' = Answered(queries')
    /\ UNCHANGED <<graphiti, clients, driver, reference_time, neo4j_edition, attempt,
                   builds, datasetVars, endVars, harnessVars>>

HandleCommunityEdition ==
    /\ pc = "handle_community_edition"
    /\ \E a1 \in TestAnswers, a2 \in StatementAnswers :
          /\ queries' = IF TestPassed(a1)
                          THEN Append(Ran(QTest, a1), [q |-> QWipe, a |-> a2])
                          ELSE Ran(QTest, a1)
          /\ using_default_db' = (using_default_db \/ TestPassed(a1))
          /\ Return(TestPassed(a1) /\ a2.r = "ok")
    /\ backendAnswered' = Answered(queries')
    /\ UNCHANGED <<graphiti, clients, driver, reference_time, neo4j_edition, attempt,
                   builds, datasetVars, endVars, harnessVars>>

\* what setup_neo4j_database returns after "success = await
\* self._try_create_database(session)": True at once when success, and
\* otherwise control leaves the with block and reaches the final "return True"
SetupAfterCreate(success) == IF success THEN TRUE ELSE TRUE

\* setup_neo4j_database returns (the session closes) and initialize_graphiti
\* goes on: "if not await self.setup_neo4j_database(): return False"
SetupReturn ==
    /\ pc \in {"setup_return", "after_create"}
    /\ LET result == IF pc = "after_create" THEN SetupAfterCreate(ret) ELSE ret
       IN IF result
          THEN /\ pc' = "build_indices"
               /\ ret' = result
               /\ UNCHANGED stack
          ELSE Return(FALSE)
    /\ neo4j_edition' = ""
    /\ attempt' = 0
    /\ UNCHANGED <<loaderFields, logVars, datasetVars, endVars, harnessVars>>

\* faulty variant: every failure of the index build is taken for the database mismatch
IsDatabaseMismatch_AnyError(a) == TRUE

\* "database" in error_msg and "default_db" in error_msg
IsDatabaseMismatch(a) == Has(a, "database") /\ Has(a, "default_db")

Built(cs, c, a) == [cs EXCEPT ![c].built = (a.r = "ok")]

\* faulty variant: initialize_graphiti returns True whatever the index build did
BuildIndices_SwallowsError ==
    /\ pc = "build_indices"
    /\ \E a \in BuildAnswers :
          /\ builds' = Append(builds, [client |-> graphiti, a |-> a])
          /\ clients' = Built(clients, graphiti, a)
          /\ Return(TRUE)
          /\ backendAnswered' = (backendAnswered \/ a.r = "ok")
    /\ UNCHANGED <<graphiti, driver, using_default_db, reference_time, neo4j_edition,
                   attempt, queries, datasetVars, endVars, harnessVars>>

\* initialize_graphiti: build_indices_and_constraints and its except clauses
BuildIndices ==
    /\ pc = "build_indices"
    /\ \E a \in BuildAnswers :
          /\ builds' = Append(builds, [client |-> graphiti, a |-> a])
          /\ clients' = Built(clients, graphiti, a)
          /\ IF a.r = "ok" THEN Return(TRUE)
             ELSE IF IsDatabaseMismatch(a)
             THEN /\ pc' = "handle_graphiti_database_issue"
                  /\ UNCHANGED <<stack, ret>>
             ELSE Return(FALSE)
          /\ backendAnswered' = (backendAnswered \/ a.r = "ok")
    /\ UNCHANGED <<graphiti, driver, using_default_db, reference_time, neo4j_edition,
                   attempt, queries, datasetVars, endVars, harnessVars>>

\* faulty variant: the retry takes a new timestamp when it makes the new client
HandleGraphitiDatabaseIssue_NewTimestamp ==
    /\ pc = "handle_graphiti_database_issue"
    /\ \E closeOk \in BOOLEAN, madeOk \in BOOLEAN, a \in BuildAnswers :
          LET closed == [clients EXCEPT ![graphiti].closes = @ + 1]
              new == Len(clients) + 1
          IN IF closeOk /\ madeOk
             THEN /\ clients' = Append(closed, [built |-> a.r = "ok", closes |-> 0])
                  /\ graphiti' = new
                  /\ reference_time' = "retry"
                  /\ builds' = Append(builds, [client |-> new, a |-> a])
                  /\ backendAnswered' = (backendAnswered \/ a.r = "ok")
                  /\ Return(a.r = "ok")
             ELSE /\ clients' = closed
                  /\ Return(FALSE)
                  /\ UNCHANGED <<graphiti, builds, backendAnswered, reference_time>>
    /\ UNCHANGED <<driver, using_default_db, neo4j_edition, attempt,
                   queries, datasetVars, endVars, harnessVars>>

\* close the client, make a new one, build again; any exception: return False
HandleGraphitiDatabaseIssue ==
    /\ pc = "handle_graphiti_database_issue"
    /\ \E closeOk \in BOOLEAN, madeOk \in BOOLEAN, a \in BuildAnswers :
          LET closed == [clients EXCEPT ![graphiti].closes = @ + 1]
              new == Len(clients) + 1
          IN IF closeOk /\ madeOk
             THEN /\ clients' = Append(closed, [built |-> a.r = "ok", closes |-> 0])
                  /\ graphiti' = new
                  /\ builds' = Append(builds, [client |-> new, a |-> a])
                  /\ backendAnswered' = (backendAnswered \/ a.r = "ok")
                  /\ Return(a.r = "ok")
             ELSE /\ clients' = closed
                  /\ Return(FALSE)
                  /\ UNCHANGED <<graphiti, builds, backendAnswered>>
    /\ UNCHANGED <<driver, using_default_db, reference_time, neo4j_edition, attempt,
                   queries, datasetVars, endVars, harnessVars>>


(***************************************************************************)
(* Dataset files the model reads.                                          *)
(***************************************************************************)
Merge(f, g) == [k \in DOMAIN f \cup DOMAIN g |-> IF k \in DOMAIN f THEN f[k] ELSE g[k]]

Q1 == Str(<<"Q", "1">>)
Q2 == Str(<<"Q", "2">>)
A1 == Str(<<"A", "1">>)
Text == Str(<<"t", "x", "t">>)
LongQuestion == Str([j \in 1..(FaqNameLen + 1) |-> "q"])

Identity(kind) ==
    [k \in {IdentityKey(kind)} |-> IF kind = "faqs" THEN LongQuestion ELSE Text]

\* every optional key the loader of this kind reads, present
Optionals(kind) ==
    CASE kind = "satellites" ->
            [url |-> Text, description |-> Text, documents |-> TagList]
      [] kind = "products" ->
            [category |-> Text, description |-> Text, url |-> Text,
             specifications |-> SpecDict, download_info |-> SpecDict,
             satellites |-> TagList]
      [] kind = "documents" ->
            [url |-> Text, file_type |-> Text, size |-> IntSeven,
             description |-> Text, mission |-> Text]
      [] kind = "mission_metadata" ->
            [sensors |-> TagList, launch_date |-> Text, agency |-> Text,
             orbit_type |-> Text, applications |-> TagList,
             technical_specs |-> SpecDict]
      [] OTHER ->
            [answer |-> A1, category |-> Text, tags |-> TagList, url |-> Text]

FaqQ1A1 == Mapping([question |-> Q1, answer |-> A1])
FaqQ2 == Mapping([question |-> Q2])
FaqNumberQuestion == Mapping([question |-> IntSeven])

Elements(kind) ==
    {Mapping(Merge(Identity(kind), Optionals(kind))),
     Mapping(EmptyMap),
     NotMapping}
    \cup (IF kind = "faqs"
            THEN {FaqQ1A1, FaqQ2, FaqNumberQuestion}
            ELSE {Mapping(Identity(kind))})

\* what json.load can return for the file of a dataset: an array of at most
\* MaxRecords elements
Files(kind) == UNION {[1..n -> Elements(kind)] : n \in 0..MaxRecords}

EpisodeAnswers == {Done, Raise({"connection"})}

\* an exception leaves the entry point: main() catches it and runs its finally
\* block; a direct caller of the method sees it
Unwind(e) ==
    /\ exc' = e
    /\ pc' = IF stack # <<>> /\ stack[Len(stack)] = "main_finally"
               THEN "main_finally" ELSE "raised"
    /\ stack' = <<>>

(***************************************************************************)
(* load_all_datasets after initialize_graphiti returned.                   *)
(***************************************************************************)
AfterInitialize ==
    /\ pc = "after_initialize"
    /\ IF InitializeFailed(ret)
       THEN /\ pc' = Head(stack)
            /\ stack' = Tail(stack)
            /\ exitPath' = "bootstrap_failed"
            /\ UNCHANGED <<queries, builds, dsIdx, total_loaded, dataset_name>>
       ELSE /\ total_loaded' = 0
            /\ dsIdx' = 1
            /\ dataset_name' = DatasetOrder[1]
            /\ Call("load_dataset", "after_load_dataset")
            /\ queries' = <<>>
            /\ builds' = <<>>
            /\ UNCHANGED exitPath
    /\ UNCHANGED <<ret, exc, closeLog, loaderFields, neo4j_edition, attempt, reported,
                   data, i, episodes, anyEpisode, fileOps, backendAnswered, harnessVars>>

\* faulty variant: load_dataset looks the file name up with a default instead of
\* DATASETS[dataset_name]
LoadDataset_LenientLookup ==
    /\ pc = "load_dataset"
    /\ \E exists \in BOOLEAN :
          /\ fileOps' = Append(fileOps, <<"exists", dataset_name>>)
          /\ IF exists
             THEN /\ pc' = "read_dataset"
                  /\ UNCHANGED <<stack, ret>>
             ELSE Return(FALSE)
    /\ UNCHANGED <<loaderFields, negotiationVars, dsIdx, total_loaded, reported,
                   dataset_name, data, i, episodes, anyEpisode, endVars,
                   backendAnswered, harnessVars>>

\* load_dataset: the path lookup and the existence check
LoadDataset ==
    /\ pc = "load_dataset"
    /\ IF dataset_name \notin DATASETS
       THEN /\ Unwind("KeyError")
            /\ UNCHANGED <<ret, fileOps>>
       ELSE /\ \E exists \in BOOLEAN :
                  /\ fileOps' = Append(fileOps, <<"exists", dataset_name>>)
                  /\ IF exists
                     THEN /\ pc' = "read_dataset"
                          /\ UNCHANGED <<stack, ret>>
                     ELSE Return(FALSE)
            /\ UNCHANGED exc
    /\ UNCHANGED <<loaderFields, negotiationVars, dsIdx, total_loaded, reported,
                   dataset_name, data, i, episodes, anyEpisode, exitPath, closeLog,
                   backendAnswered, harnessVars>>

\* load_dataset: open, json.load, the emptiness check and the routing
ReadDataset ==
    /\ pc = "read_dataset"
    /\ \E parsed \in BOOLEAN, content \in Files(dataset_name) :
          /\ fileOps' = Append(fileOps, <<"open", dataset_name>>)
          /\ IF parsed /\ content # <<>>
             THEN /\ data' = content
                  /\ i' = 1
                  /\ pc' = "loader"
                  /\ UNCHANGED <<stack, ret>>
             ELSE /\ Return(FALSE)
                  /\ UNCHANGED <<data, i>>
    /\ UNCHANGED <<loaderFields, negotiationVars, dsIdx, total_loaded, reported,
                   dataset_name, episodes, anyEpisode, endVars, backendAnswered,
                   harnessVars>>

\* faulty variant: the loader hands the records over from the last to the first
Episode_Backwards(kind, e, idx, a) ==
    [idx |-> Len(data) + 1 - idx,
     name |-> EpisodeName(kind, data[Len(data) + 1 - idx]),
     body |-> EpisodeData(kind, data[Len(data) + 1 - idx]),
     source_description |-> kind,
     reference_time |-> reference_time,
     client |-> graphiti,
     r |-> a.r]

\* the add_episode call of a loader for element idx of the file, and its outcome
Episode(kind, e, idx, a) ==
    [idx |-> idx,
     name |-> EpisodeName(kind, e),
     body |-> EpisodeData(kind, e),
     source_description |-> kind,
     reference_time |-> reference_time,
     client |-> graphiti,
     r |-> a.r]

\* the try block of a loader reaches add_episode: neither the progress line
\* nor the name raises
Submitted(kind, e) ==
    /\ ~ShownRaises(kind, e, PrintDefault(kind))
    /\ ~ShownRaises(kind, e, Lit("Unknown"))

\* an exception is raised inside the try block
Caught(kind, e, a) == ~Submitted(kind, e) \/ a.r = "raise"

\* faulty variant: a loader without the try/except around its loop body
Escapes_NoHandler(kind, e, a) == Caught(kind, e, a)

\* the except clause of a loader: "except Exception as e: print(...); continue".
\* Its print evaluates x.get(key, 'Unknown') (sliced for FAQs) again, and an
\* exception raised there leaves the loader
Escapes(kind, e, a) == Caught(kind, e, a) /\ ShownRaises(kind, e, Lit("Unknown"))

\* One pass of the for loop of load_satellites, load_products, load_documents,
\* load_mission_metadata or load_faqs.  After the last element the loader
\* returns and load_dataset returns True; an exception that leaves the loader
\* is caught by load_dataset, which returns False.
LoaderStep ==
    /\ pc = "loader"
    /\ \E a \in EpisodeAnswers :
          LET e == data[i]
              kind == dataset_name
          IN /\ episodes' = IF Submitted(kind, e)
                              THEN Append(episodes, Episode(kind, e, i, a))
                              ELSE episodes
             /\ anyEpisode' = (anyEpisode \/ Submitted(kind, e))
             /\ backendAnswered' = (backendAnswered \/ (Submitted(kind, e) /\ a.r = "ok"))
             /\ IF Escapes(kind, e, a)
                THEN /\ Return(FALSE)
                     /\ i' = 0
                ELSE IF i = Len(data)
                THEN /\ Return(TRUE)
                     /\ i' = 0
                ELSE /\ i' = i + 1
                     /\ UNCHANGED <<pc, stack, ret>>
    /\ UNCHANGED <<loaderFields, negotiationVars, dsIdx, total_loaded, reported,
                   dataset_name, data, fileOps, endVars, harnessVars>>

\* faulty variant: a dataset counts as loaded only if every submission was accepted
AfterLoadDataset_CountsAccepted ==
    /\ pc = "after_load_dataset"
    /\ LET good == ret /\ \A k \in DOMAIN episodes : episodes[k].r = "ok"
           count == IF good THEN total_loaded + 1 ELSE total_loaded
       IN /\ total_loaded' = count
          /\ IF dsIdx < Len(DatasetOrder)
             THEN /\ dsIdx' = dsIdx + 1
                  /\ dataset_name' = DatasetOrder[dsIdx + 1]
                  /\ Call("load_dataset", "after_load_dataset")
                  /\ UNCHANGED reported
             ELSE /\ reported' = <<count, Len(DatasetOrder)>>
                  /\ pc' = "display_stats"
                  /\ UNCHANGED <<stack, dsIdx, dataset_name>>
    /\ data' = <<>>
    /\ episodes' = <<>>
    /\ fileOps' = <<>>
    /\ UNCHANGED <<ret, loaderFields, negotiationVars, i, anyEpisode, endVars,
                   backendAnswered, harnessVars>>

\* faulty variant: load_all_datasets leaves its loop at the first dataset that failed
AfterLoadDataset_StopOnFailure ==
    /\ pc = "after_load_dataset"
    /\ LET count == IF ret THEN total_loaded + 1 ELSE total_loaded
       IN /\ total_loaded' = count
          /\ IF dsIdx < Len(DatasetOrder) /\ ret
             THEN /\ dsIdx' = dsIdx + 1
                  /\ dataset_name' = DatasetOrder[dsIdx + 1]
                  /\ Call("load_dataset", "after_load_dataset")
                  /\ UNCHANGED reported
             ELSE /\ reported' = <<count, Len(DatasetOrder)>>
                  /\ pc' = "display_stats"
                  /\ UNCHANGED <<stack, dsIdx, dataset_name>>
    /\ data' = <<>>
    /\ episodes' = <<>>
    /\ fileOps' = <<>>
    /\ UNCHANGED <<ret, loaderFields, negotiationVars, i, anyEpisode, endVars,
                   backendAnswered, harnessVars>>

\* the rest of the for loop of load_all_datasets and the summary lines
AfterLoadDataset ==
    /\ pc = "after_load_dataset"
    /\ LET count == IF ret THEN total_loaded + 1 ELSE total_loaded
       IN /\ total_loaded' = count
          /\ IF dsIdx < Len(DatasetOrder)
             THEN /\ dsIdx' = dsIdx + 1
                  /\ dataset_name' = DatasetOrder[dsIdx + 1]
                  /\ Call("load_dataset", "after_load_dataset")
                  /\ UNCHANGED reported
             ELSE /\ reported' = <<count, Len(DatasetOrder)>>
                  /\ pc' = "display_stats"
                  /\ UNCHANGED <<stack, dsIdx, dataset_name>>
    /\ data' = <<>>
    /\ episodes' = <<>>
    /\ fileOps' = <<>>
    /\ UNCHANGED <<ret, loaderFields, negotiationVars, i, anyEpisode, endVars,
                   backendAnswered, harnessVars>>

\* faulty variant: display_stats clears the graph before it counts
DisplayStats_ClearsFirst ==
    /\ pc = "display_stats"
    /\ \E a1 \in StatementAnswers, a2 \in StatementAnswers :
          queries' = Append(Append(Append(Ran(QSession, Done),
                                          [q |-> QWipe, a |-> Done]),
                                   [q |-> QNodeCount, a |-> a1]),
                            [q |-> QRelCount, a |-> a2])
    /\ backendAnswered' = TRUE
    /\ pc' = Head(stack)
    /\ stack' = Tail(stack)
    /\ exitPath' = "normal"
    /\ UNCHANGED <<ret, exc, closeLog, loaderFields, neo4j_edition, attempt, builds,
                   datasetVars, harnessVars>>

\* faulty variant: display_stats without its try/except: a failing session or query
\* leaves load_all_datasets as an exception
DisplayStats_Uncaught ==
    /\ pc = "display_stats"
    /\ \E sessionOk \in BOOLEAN, a1 \in StatementAnswers, a2 \in StatementAnswers :
          LET opened == Ran(QSession, Done)
              counted == Append(opened, [q |-> QNodeCount, a |-> a1])
              failed == ~sessionOk \/ a1.r = "raise" \/ a2.r = "raise"
          IN /\ queries' = IF ~sessionOk THEN Ran(QSession, Raise({"connection"}))
                           ELSE IF a1.r = "raise" THEN counted
                           ELSE Append(counted, [q |-> QRelCount, a |-> a2])
             /\ exitPath' = IF failed THEN "exception" ELSE "normal"
             /\ exc' = IF failed THEN "ServiceUnavailable" ELSE exc
    /\ backendAnswered' = Answered(queries')
    /\ pc' = Head(stack)
    /\ stack' = Tail(stack)
    /\ UNCHANGED <<ret, closeLog, loaderFields, neo4j_edition, attempt, builds,
                   datasetVars, harnessVars>>

\* display_stats, and load_all_datasets returns
DisplayStats ==
    /\ pc = "display_stats"
    /\ \E sessionOk \in BOOLEAN, a1 \in StatementAnswers, a2 \in StatementAnswers :
          LET opened == Ran(QSession, Done)
              counted == Append(opened, [q |-> QNodeCount, a |-> a1])
          IN queries' = IF ~sessionOk THEN Ran(QSession, Raise({"connection"}))
                        ELSE IF a1.r = "raise" THEN counted
                        ELSE Append(counted, [q |-> QRelCount, a |-> a2])
    /\ backendAnswered' = Answered(queries')
    /\ pc' = Head(stack)
    /\ stack' = Tail(stack)
    /\ exitPath' = "normal"
    /\ UNCHANGED <<ret, exc, closeLog, loaderFields, neo4j_edition, attempt, builds,
                   datasetVars, harnessVars>>

\* KeyboardInterrupt, or an exception nothing below main() handles, while
\* load_all_datasets runs: the frames are unwound and main() reaches finally
Interrupt ==
    /\ pc \notin {"main_finally", "done", "raised", "returned"}
    /\ stack # <<>>
    /\ stack[Len(stack)] = "main_finally"
    /\ \E how \in {"interrupted", "exception"} : exitPath' = how
    /\ pc' = "main_finally"
    /\ stack' = <<>>
    /\ neo4j_edition' = ""
    /\ attempt' = 0
    /\ queries' = <<>>
    /\ builds' = <<>>
    /\ dsIdx' = 0
    /\ total_loaded' = 0
    /\ dataset_name' = ""
    /\ data' = <<>>
    /\ i' = 0
    /\ episodes' = <<>>
    /\ fileOps' = <<>>
    /\ UNCHANGED <<ret, exc, closeLog, loaderFields, reported, anyEpisode,
                   backendAnswered, harnessVars>>

\* MOSDACGraphLoader.close, awaited in the finally block of main
Close ==
    /\ pc = "main_finally"
    /\ \E g \in {"ok", "raise"}, d \in {"ok", "raise"} :
          closeLog' =
              IF g = "raise" THEN <<[target |-> "graphiti", r |-> g]>>
              ELSE IF driver = "None" THEN <<[target |-> "graphiti", r |-> g]>>
              ELSE <<[target |-> "graphiti", r |-> g], [target |-> "driver", r |-> d]>>
    /\ clients' = [clients EXCEPT ![graphiti].closes = @ + 1]
    /\ pc' = "done"
    /\ UNCHANGED <<stack, ret, exc, exitPath, graphiti, driver, using_default_db,
                   reference_time, negotiationVars, datasetVars, backendAnswered,
                   harnessVars>>

Next ==
    \/ LoadAllDatasets
    \/ SetupNeo4jDatabase
    \/ ShowDatabases
    \/ TryCreateDatabase
    \/ PollStatus
    \/ TryWorkarounds
    \/ HandleCommunityEdition
    \/ SetupReturn
    \/ BuildIndices
    \/ HandleGraphitiDatabaseIssue
    \/ AfterInitialize
    \/ LoadDataset
    \/ ReadDataset
    \/ LoaderStep
    \/ AfterLoadDataset
    \/ DisplayStats
    \/ Interrupt
    \/ Close

Spec == Init /\ [][Next]_vars


(***************************************************************************)
(* main() left to run: no KeyboardInterrupt, and every awaited call        *)
(* returns or raises, so the single thread of control always takes its     *)
(* next step.                                                              *)
(***************************************************************************)
NextRun ==
    \/ LoadAllDatasets
    \/ SetupNeo4jDatabase
    \/ ShowDatabases
    \/ TryCreateDatabase
    \/ PollStatus
    \/ TryWorkarounds
    \/ HandleCommunityEdition
    \/ SetupReturn
    \/ BuildIndices
    \/ HandleGraphitiDatabaseIssue
    \/ AfterInitialize
    \/ LoadDataset
    \/ ReadDataset
    \/ LoaderStep
    \/ AfterLoadDataset
    \/ DisplayStats
    \/ Close

SpecRun == Init /\ [][NextRun]_vars /\ WF_vars(NextRun)

(***************************************************************************)
(* initialize_graphiti awaited directly, MaxBootstraps times on one        *)
(* loader.                                                                 *)
(***************************************************************************)
\* the first SHOW DATABASES of the bootstrap listed default_db
ListingFound ==
    /\ Len(queries) >= 3
    /\ queries[3].q = QShow
    /\ queries[3].a.r = "ok"
    /\ "default_db" \in queries[3].a.v

\* the first build_indices_and_constraints of the bootstrap succeeded
FirstBuildOk == builds # <<>> /\ builds[1].a.r = "ok"

InitBoot ==
    /\ Constructed
    /\ NoLocals
    /\ dataset_name = ""
    /\ pc = "initialize_graphiti"
    /\ stack = <<"returned">>

BootAgain ==
    /\ pc = "returned"
    /\ Len(bootHist) + 1 < MaxBootstraps
    /\ bootHist' = Append(bootHist,
                          [configured |-> ListingFound /\ FirstBuildOk, result |-> ret])
    /\ queries' = <<>>
    /\ builds' = <<>>
    /\ pc' = "initialize_graphiti"
    /\ stack' = <<"returned">>
    /\ ret' = FALSE
    /\ neo4j_edition' = ""
    /\ attempt' = 0
    /\ UNCHANGED <<loaderFields, datasetVars, endVars, backendAnswered>>

NextBoot ==
    \/ SetupNeo4jDatabase
    \/ ShowDatabases
    \/ TryCreateDatabase
    \/ PollStatus
    \/ TryWorkarounds
    \/ HandleCommunityEdition
    \/ SetupReturn
    \/ BuildIndices
    \/ HandleGraphitiDatabaseIssue
    \/ BootAgain

SpecBoot == InitBoot /\ [][NextBoot]_vars

(***************************************************************************)
(* setup_neo4j_database run on two fresh loaders, one after the other.     *)
(* The backend answers the second run as it answered the first, except     *)
(* that the version query fails in one run and succeeds in the other.      *)
(***************************************************************************)
\* setup_neo4j_database has returned: initialize_graphiti either goes on to the
\* index build (True) or returns False
SetupEnded == pc \in {"build_indices", "returned"}

InitTwin ==
    /\ Constructed
    /\ NoLocals
    /\ dataset_name = ""
    /\ pc = "initialize_graphiti"
    /\ stack = <<"returned">>

\* the answers of the second run are those of the first, the version query
\* excepted
Replays ==
    bootHist # <<>> =>
        LET saved == bootHist[1].log
        IN \A j \in DOMAIN queries :
              j \in DOMAIN saved =>
                  IF j = 2 THEN queries[j].a.r # saved[j].a.r
                           ELSE queries[j].a = saved[j].a

\* the first run is over: keep its log and result, start again on a new loader
TwinAgain ==
    /\ SetupEnded
    /\ bootHist = <<>>
    /\ bootHist' = <<[log |-> queries, result |-> (pc = "build_indices"),
                      fallback |-> using_default_db]>>
    /\ queries' = <<>>
    /\ driver' = "None"
    /\ using_default_db' = FALSE
    /\ ret' = FALSE
    /\ neo4j_edition' = ""
    /\ attempt' = 0
    /\ backendAnswered' = FALSE
    /\ pc' = "initialize_graphiti"
    /\ stack' = <<"returned">>
    /\ UNCHANGED <<graphiti, clients, reference_time, builds, datasetVars, endVars>>

NextTwin ==
    \/ SetupNeo4jDatabase /\ Replays'
    \/ ShowDatabases /\ Replays'
    \/ TryCreateDatabase /\ Replays'
    \/ PollStatus /\ Replays'
    \/ TryWorkarounds /\ Replays'
    \/ HandleCommunityEdition /\ Replays'
    \/ SetupReturn
    \/ TwinAgain

SpecTwin == InitTwin /\ [][NextTwin]_vars

(***************************************************************************)
(* load_dataset awaited directly, with any identifier, on a loader whose   *)
(* bootstrap succeeded.                                                    *)
(***************************************************************************)
DatasetIds == DATASETS \cup {"gallery", "FAQS"}

InitRouter ==
    /\ graphiti = 1
    /\ clients = <<[built |-> TRUE, closes |-> 0]>>
    /\ driver = "driver"
    /\ using_default_db = FALSE
    /\ reference_time = "run_start"
    /\ backendAnswered = TRUE
    /\ NoLocals
    /\ dataset_name \in DatasetIds
    /\ pc = "load_dataset"
    /\ stack = <<"returned">>

NextRouter ==
    \/ LoadDataset
    \/ ReadDataset
    \/ LoaderStep

SpecRouter == InitRouter /\ [][NextRouter]_vars

(***************************************************************************)
(* Properties.                                                             *)
(***************************************************************************)
\* load_dataset has returned to its caller
AtReturn == pc \in {"after_load_dataset", "returned"}

\* a malformed array element: not a mapping, or a FAQ whose question is
\* present but not a string
Malformed(kind, e) ==
    \/ ~e.isMap
    \/ /\ kind = "faqs"
       /\ "question" \in DOMAIN e.m
       /\ e.m["question"].t # "str"

SubmittedOnce(j) == Cardinality({m \in DOMAIN episodes : episodes[m].idx = j}) = 1

\* C1: when add_episode raises for a record, the loader goes on: every later
\* record (up to the first malformed one, if any) is submitted exactly once,
\* and if no later record is malformed load_dataset returns True.
C1_SubmissionFailureIsolated ==
    (AtReturn /\ data # <<>>) =>
        \A k \in DOMAIN episodes :
            episodes[k].r = "raise" =>
                LET f == episodes[k].idx
                IN /\ \A j \in (f + 1)..Len(data) :
                         (\A h \in (f + 1)..j : ~Malformed(dataset_name, data[h]))
                             => SubmittedOnce(j)
                   /\ (\A h \in (f + 1)..Len(data) : ~Malformed(dataset_name, data[h]))
                         => ret = TRUE

\* a two-record dataset whose first submission raised and whose second was
\* still made, load_dataset returning True
C1_Witness ==
    /\ AtReturn
    /\ Len(data) = 2
    /\ Len(episodes) = 2
    /\ episodes[1].idx = 1
    /\ episodes[1].r = "raise"
    /\ episodes[2].idx = 2
    /\ ret = TRUE

\* C2: a dataset of N well-formed records and one malformed record, every
\* submission accepted, yields N-1 or N episodes, and every well-formed
\* record is submitted.
C2_MalformedRecordSkipped ==
    (/\ AtReturn
     /\ data # <<>>
     /\ Cardinality({j \in DOMAIN data : Malformed(dataset_name, data[j])}) = 1
     /\ \A k \in DOMAIN episodes : episodes[k].r = "ok")
    => /\ Len(episodes) + 2 >= Len(data)
       /\ Len(episodes) + 1 <= Len(data)
       /\ \A j \in DOMAIN data :
             ~Malformed(dataset_name, data[j])
                => \E k \in DOMAIN episodes : episodes[k].idx = j

\* C3: the faqs dataset [{question: Q1, answer: A1}, {question: Q2}] yields two
\* episodes in that order, the second with answer null and category "general";
\* any FAQ record without a category key yields category "general".
C3_FaqCategoryDefault ==
    /\ (AtReturn /\ dataset_name = "faqs" /\ data = <<FaqQ1A1, FaqQ2>>)
          => /\ Len(episodes) = 2
             /\ episodes[1].idx = 1
             /\ episodes[2].idx = 2
             /\ episodes[2].body["answer"] = Null
             /\ episodes[2].body["category"] = Lit("general")
    /\ \A k \in DOMAIN episodes :
          (dataset_name = "faqs" /\ "category" \notin DOMAIN data[episodes[k].idx].m)
             => episodes[k].body["category"] = Lit("general")

IsStatsQuery(q) == q \in {QNodeCount, QRelCount}

NothingLoaded ==
    /\ dsIdx = 0
    /\ fileOps = <<>>
    /\ episodes = <<>>
    /\ ~anyEpisode
    /\ reported = <<>>
    /\ \A j \in DOMAIN queries : ~IsStatsQuery(queries[j].q)

\* C4: when initialize_graphiti returns False, the next step of
\* load_all_datasets is its return, and from then on to the end of the run no
\* dataset file was touched, no episode submitted and no statistics query run.
C4_FailedBootstrapSkipsLoads ==
    /\ [][(pc = "after_initialize" /\ ~ret)
            => (pc' = "main_finally" /\ NothingLoaded')]_vars
    /\ [](exitPath = "bootstrap_failed" => NothingLoaded)

\* the run ended after the index-build retry failed
C4_Witness ==
    /\ pc = "done"
    /\ exitPath = "bootstrap_failed"
    /\ Len(builds) = 2

\* C5: as long as the backend has answered no query and no index build, no
\* dataset was attempted: zero datasets loaded, no file touched.
C5_UnreachableBackendLoadsNothing ==
    ~backendAnswered =>
        /\ dsIdx = 0
        /\ total_loaded = 0
        /\ fileOps = <<>>
        /\ data = <<>>
        /\ reported = <<>>
        /\ pc \notin {"load_dataset", "read_dataset", "loader", "after_load_dataset",
                      "display_stats"}

\* the run ended, the version query, the listing and the connectivity test
\* having raised
C5_Witness ==
    /\ pc = "done"
    /\ ~backendAnswered
    /\ \E j \in DOMAIN queries : queries[j].q = QTest /\ queries[j].a.r = "raise"

\* C6: when _try_create_database returns False, setup_neo4j_database does not
\* return True (initialize_graphiti does not go on to build the indices).
C6_CreationFailureFailsSetup ==
    [][(pc = "after_create" /\ ~ret) => pc' # "build_indices"]_vars

IsDestructive(q) ==
    \/ q = QWipe
    \/ q = QCreateMosdac
    \/ \E m \in DOMAIN CreateMethods : q = CreateMethods[m]

\* C7: a bootstrap whose listing contains default_db issues no CREATE DATABASE
\* and no wipe, and returns True when the index build succeeds; this holds of
\* the first and of every later bootstrap of the same loader.
C7_BootstrapIdempotent ==
    /\ ListingFound => \A j \in DOMAIN queries : ~IsDestructive(queries[j].q)
    /\ (pc = "returned" /\ ListingFound /\ FirstBuildOk) => ret = TRUE

\* the second bootstrap returned True on a configured backend, after a first
\* one that did
C7_Witness ==
    /\ pc = "returned"
    /\ bootHist = <<[configured |-> TRUE, result |-> TRUE]>>
    /\ ListingFound
    /\ FirstBuildOk
    /\ ret = TRUE

\* C8: when main ends, a close was attempted on the Graphiti client and, if a
\* driver was created, on the driver.
C8_BothClosesAttempted ==
    pc = "done" =>
        /\ \E j \in DOMAIN closeLog : closeLog[j].target = "graphiti"
        /\ driver = "driver" => \E j \in DOMAIN closeLog : closeLog[j].target = "driver"

\* the summary line was printed and a statistics session or query raised
StatsFailed ==
    /\ reported # <<>>
    /\ \E j \in DOMAIN queries : queries[j].a.r = "raise"

\* C9: a failing statistics query leaves the reported count as it was (the
\* number of datasets loaded, of five) and load_all_datasets returns normally.
C9_StatsFailureHarmless ==
    StatsFailed =>
        /\ pc \in {"main_finally", "done"}
        /\ exitPath = "normal"
        /\ exc = ""
        /\ reported = <<total_loaded, Len(DatasetOrder)>>

\* the run ended normally with some dataset loaded and the statistics failed
C9_Witness ==
    /\ pc = "done"
    /\ StatsFailed
    /\ reported[1] >= 1

\* C10: load_dataset with an unknown identifier raises KeyError, having made
\* no file-system call and submitted nothing.
C10_UnknownDatasetRaisesFirst ==
    dataset_name \notin DATASETS =>
        /\ pc \in {"load_dataset", "raised"}
        /\ pc = "raised" => exc = "KeyError"
        /\ fileOps = <<>>
        /\ data = <<>>
        /\ episodes = <<>>
        /\ ~anyEpisode

C10_Witness ==
    /\ pc = "raised"
    /\ exc = "KeyError"
    /\ dataset_name = "gallery"
    /\ fileOps = <<>>


\* the optional fields of a payload, by kind
OptionalFields(kind) ==
    CASE kind = "satellites" -> {"url", "description", "documents"}
      [] kind = "products" ->
            {"category", "description", "url", "specifications", "download_info",
             "related_satellites"}
      [] kind = "documents" ->
            {"url", "file_type", "size", "description", "related_mission"}
      [] kind = "mission_metadata" ->
            {"sensors", "launch_date", "agency", "orbit_type", "applications",
             "technical_specs"}
      [] OTHER -> {"answer", "category", "tags", "url"}

ListFields == {"documents", "related_satellites", "sensors", "applications", "tags"}

DictFields == {"specifications", "download_info", "technical_specs"}

IsEmptyValue(v) == v \in {Null, EmptyList, EmptyDict, Str(<<>>)}

\* a well-formed record with no key but (possibly) its identity
LacksOptionals(kind, e) ==
    /\ ~Malformed(kind, e)
    /\ DOMAIN e.m \subseteq {IdentityKey(kind)}

\* the records the running loader has dealt with: those before the loop index,
\* and after the loader ended those not behind a malformed record
Processed ==
    {j \in DOMAIN data :
        /\ pc = "loader" => j < i
        /\ \A h \in 1..(j - 1) : ~Malformed(dataset_name, data[h])}

\* C11: a record lacking every optional field is normalised without raising
\* (it reaches add_episode), and in its payload every container-valued optional
\* field is the empty list or empty dict and every other optional field is
\* empty or null.
C11_DefaultsWhenOptionalsAbsent ==
    /\ \A j \in Processed :
          LacksOptionals(dataset_name, data[j])
             => \E k \in DOMAIN episodes : episodes[k].idx = j
    /\ \A k \in DOMAIN episodes :
          LacksOptionals(dataset_name, data[episodes[k].idx])
             => \A f \in OptionalFields(dataset_name) :
                   /\ f \in DOMAIN episodes[k].body
                   /\ f \in ListFields => episodes[k].body[f] = EmptyList
                   /\ f \in DictFields => episodes[k].body[f] = EmptyDict
                   /\ f \notin ListFields \cup DictFields
                         => IsEmptyValue(episodes[k].body[f])

\* C12: every episode has a non-empty name; a record (a mapping) without its
\* identity field is submitted, and its name is the prefix followed by the
\* placeholder "Unknown".
C12_NameNeverEmpty ==
    /\ \A k \in DOMAIN episodes :
          /\ episodes[k].name # <<>>
          /\ \A c \in DOMAIN episodes[k].name : episodes[k].name[c] # ""
          /\ IdentityKey(dataset_name) \notin DOMAIN data[episodes[k].idx].m
                => episodes[k].name = <<NamePrefix(dataset_name), "Unknown">>
    /\ \A j \in Processed :
          (data[j].isMap /\ IdentityKey(dataset_name) \notin DOMAIN data[j].m)
             => \E k \in DOMAIN episodes : episodes[k].idx = j

\* a product without a name was submitted under the placeholder and accepted
C12_Witness ==
    /\ pc = "returned"
    /\ dataset_name = "products"
    /\ Len(episodes) = 1
    /\ data[1] = Mapping(EmptyMap)
    /\ episodes[1].name = <<"Data Product: ", "Unknown">>
    /\ episodes[1].r = "ok"


\* C13: every episode of a run carries the loader's reference_time, which is
\* non-empty and is still the timestamp taken when the loader was constructed,
\* also after the index-build retry made a new client.
C13_SharedReferenceTime ==
    /\ reference_time = "run_start"
    /\ \A k \in DOMAIN episodes :
          /\ episodes[k].reference_time # ""
          /\ episodes[k].reference_time = reference_time

\* an episode of the last dataset, submitted through the client the retry made
C13_Witness ==
    /\ dataset_name = "faqs"
    /\ Len(clients) = 2
    /\ episodes # <<>>
    /\ episodes[1].client = 2
    /\ episodes[1].reference_time = "run_start"


\* C14: the episodes of a dataset are a subsequence of the file's records in
\* file order (strictly increasing positions, each episode made from the
\* record at its position), and while the loader is at record i every
\* submission so far is of an earlier record and has completed.
C14_FileOrder ==
    \A k \in DOMAIN episodes :
        /\ episodes[k].idx \in DOMAIN data
        /\ k > 1 => episodes[k - 1].idx < episodes[k].idx
        /\ pc = "loader" => episodes[k].idx < i
        /\ episodes[k].r \in {"ok", "raise"}
        /\ episodes[k].body[IdentityKey(dataset_name)]
              = Get(data[episodes[k].idx], IdentityKey(dataset_name), Null)

\* two different records, both submitted, the first one's submission having
\* raised
C14_Witness ==
    /\ AtReturn
    /\ Len(data) = 2
    /\ data[1] # data[2]
    /\ Len(episodes) = 2
    /\ episodes[1].idx = 1
    /\ episodes[1].r = "raise"
    /\ episodes[2].idx = 2
    /\ episodes[2].r = "ok"


\* load_all_datasets is inside its for loop
InDatasetLoop == pc \in {"load_dataset", "read_dataset", "loader", "after_load_dataset"}

\* load_dataset returned without a parsed, non-empty file: the file is missing,
\* does not parse, or its content is empty
NothingToLoad == pc = "after_load_dataset" /\ data = <<>>

\* C15: after a successful bootstrap the datasets are attempted one after the
\* other, each once and whatever the earlier ones returned (the position in
\* DATASETS only moves forward by one, and the statistics are reached only from
\* the fifth); a dataset whose file is missing, unparsable or empty returns
\* False with no episode, is not counted, and the next dataset is attempted.
C15_DatasetFailureIsLocal ==
    /\ [](InDatasetLoop =>
             /\ dsIdx \in DOMAIN DatasetOrder
             /\ dataset_name = DatasetOrder[dsIdx]
             /\ total_loaded < dsIdx)
    /\ [](NothingToLoad => (ret = FALSE /\ episodes = <<>>))
    /\ [](pc = "display_stats" => dsIdx = Len(DatasetOrder))
    /\ [][(pc = "after_load_dataset" /\ pc' # "main_finally") =>
             /\ total_loaded' = (IF ret THEN total_loaded + 1 ELSE total_loaded)
             /\ IF dsIdx < Len(DatasetOrder)
                THEN dsIdx' = dsIdx + 1 /\ pc' = "load_dataset"
                ELSE pc' = "display_stats" /\ reported' = <<total_loaded', Len(DatasetOrder)>>]_vars
    /\ [][(dsIdx' # dsIdx /\ pc' # "main_finally") =>
             /\ dsIdx' = dsIdx + 1
             /\ pc \in {"after_initialize", "after_load_dataset"}]_vars

\* the fifth dataset is reached after two loaded and two failed ones, and its
\* own file was opened but gave nothing to load
C15_Witness ==
    /\ NothingToLoad
    /\ dsIdx = Len(DatasetOrder)
    /\ total_loaded = 2
    /\ Len(fileOps) = 2
    /\ ret = FALSE


\* the error class that triggers the retry: the message mentions both words
MentionsDefaultDb(a) == a.r = "raise" /\ {"database", "default_db"} \subseteq a.v

\* C16: a bootstrap builds the indices at most twice; a second build happens
\* only after the first raised the database-mismatch error, and on a client
\* made after the first one was closed; a bootstrap whose last build raised
\* returns False.
C16_OneRetryOnMismatch ==
    /\ Len(builds) <= 2
    /\ Len(builds) = 2 =>
          /\ MentionsDefaultDb(builds[1].a)
          /\ builds[2].client = builds[1].client + 1
          /\ builds[2].client = Len(clients)
          /\ clients[builds[1].client].closes >= 1
          /\ clients[builds[2].client].closes = 0
    /\ (pc = "returned" /\ builds # <<>> /\ builds[Len(builds)].a.r = "raise")
          => ret = FALSE
    /\ (pc = "returned" /\ builds # <<>> /\ builds[1].a.r = "raise"
          /\ ~MentionsDefaultDb(builds[1].a))
          => (Len(builds) = 1 /\ ret = FALSE)

\* a bootstrap that succeeded on the retry
C16_Witness ==
    /\ pc = "returned"
    /\ Len(builds) = 2
    /\ builds[2].a.r = "ok"
    /\ ret = TRUE


\* the state of the run's state machine
Phase ==
    CASE exitPath = "bootstrap_failed" -> "BootstrapFailed"
      [] exitPath = "normal" -> "Done"
      [] exitPath \in {"interrupted", "exception"} -> "Aborted"
      [] pc = "load_all_datasets" -> "Start"
      [] InDatasetLoop -> "Loading"
      [] pc = "display_stats" -> "StatsReporting"
      [] OTHER -> "Bootstrapping"

PhaseEdges ==
    {<<"Start", "Bootstrapping">>,
     <<"Bootstrapping", "BootstrapFailed">>,
     <<"Bootstrapping", "Loading">>,
     <<"Loading", "StatsReporting">>,
     <<"StatsReporting", "Done">>}

\* C17: a run starts in Start and moves only along Start -> Bootstrapping ->
\* (BootstrapFailed | Loading) -> StatsReporting -> Done; Loading is entered at
\* the first dataset after a bootstrap that returned True and BootstrapFailed
\* after one that returned False; in Loading one dataset at a time is in
\* progress, in the order of DATASETS, the next starting only when the
\* previous returned; StatsReporting is entered only when the fifth returned;
\* and the run eventually is in BootstrapFailed or Done.
C17_RunStateMachine ==
    /\ Phase = "Start"
    /\ [][Phase' = Phase \/ <<Phase, Phase'>> \in PhaseEdges]_vars
    /\ [][(Phase = "Bootstrapping" /\ Phase' = "Loading")
             => (ret = TRUE /\ dsIdx' = 1)]_vars
    /\ [][(Phase = "Bootstrapping" /\ Phase' = "BootstrapFailed")
             => ret = FALSE]_vars
    /\ [](Phase = "Loading" =>
             /\ dsIdx \in DOMAIN DatasetOrder
             /\ dataset_name = DatasetOrder[dsIdx])
    /\ [][(Phase = "Loading" /\ Phase' = "Loading" /\ dsIdx' # dsIdx)
             => /\ dsIdx' = dsIdx + 1
                /\ pc = "after_load_dataset"
                /\ pc' = "load_dataset"]_vars
    /\ [][(Phase = "Loading" /\ Phase' = "StatsReporting")
             => (dsIdx = Len(DatasetOrder) /\ pc = "after_load_dataset")]_vars
    /\ <>(Phase \in {"BootstrapFailed", "Done"})

\* a run that went through every state to Done with the five datasets loaded
C17_Witness ==
    /\ pc = "done"
    /\ Phase = "Done"
    /\ dsIdx = Len(DatasetOrder)
    /\ reported = <<Len(DatasetOrder), Len(DatasetOrder)>>


\* the type discriminator of each kind
KindType(kind) ==
    CASE kind = "satellites" -> "satellite_mission"
      [] kind = "products" -> "data_product"
      [] kind = "documents" -> "documentation"
      [] kind = "mission_metadata" -> "mission_metadata"
      [] OTHER -> "faq"

\* C18: the body of every episode has a type entry naming its kind and a
\* category entry that holds a tag (a non-empty string, not null).
C18_TypeAndCategoryTag ==
    \A k \in DOMAIN episodes :
        /\ "type" \in DOMAIN episodes[k].body
        /\ episodes[k].body["type"] = Lit(KindType(dataset_name))
        /\ "category" \in DOMAIN episodes[k].body
        /\ episodes[k].body["category"].t = "str"
        /\ episodes[k].body["category"].s # <<>>


\* some CREATE DATABASE default_db variant of this bootstrap did not raise
DefaultDbCreated ==
    \E j \in DOMAIN queries :
        /\ \E m \in DOMAIN CreateMethods : queries[j].q = CreateMethods[m]
        /\ queries[j].a.r = "ok"

\* C19: every wipe directly follows a RETURN 1 round-trip that returned 1, and
\* a bootstrap that found default_db in its listing, or created it, has no
\* wipe.
C19_WipeOnlyOnFallback ==
    /\ \A j \in DOMAIN queries :
          queries[j].q = QWipe =>
              /\ j > 1
              /\ queries[j - 1].q = QTest
              /\ queries[j - 1].a.r = "ok"
              /\ "1" \in queries[j - 1].a.v
    /\ (ListingFound \/ DefaultDbCreated)
          => \A j \in DOMAIN queries : queries[j].q # QWipe

\* a bootstrap that fell back to the current database, wiped it and went on
C19_Witness ==
    /\ pc = "returned"
    /\ ret = TRUE
    /\ using_default_db
    /\ ~ListingFound
    /\ \E j \in DOMAIN queries : queries[j].q = QWipe /\ queries[j].a.r = "ok"

\* the last statement of the log is the poll that follows a CREATE DATABASE
\* which did not raise
PolledAfterCreate ==
    /\ pc = "after_create"
    /\ Len(queries) > 1
    /\ queries[Len(queries)].q = QShow
    /\ queries[Len(queries) - 1].a.r = "ok"
    /\ \E m \in DOMAIN CreateMethods : queries[Len(queries) - 1].q = CreateMethods[m]

\* C20: after a CREATE DATABASE that did not raise, _try_create_database returns
\* True when the poll raises, when default_db is not in the poll, and when its
\* status is "online", "unknown" or absent.
C20_PollLenient ==
    PolledAfterCreate =>
        LET a == queries[Len(queries)].a
        IN (\/ a.r = "raise"
            \/ "default_db" \notin a.v
            \/ a.st \in {"online", "unknown", ""})
               => ret = TRUE


\* the quoting styles of CREATE DATABASE default_db, in the order they are to
\* be tried: backticks, bare, single quotes, double quotes
VariantOrder ==
    <<"CREATE DATABASE [backtick]default_db[backtick]",
      "CREATE DATABASE default_db",
      "CREATE DATABASE [quote]default_db[quote]",
      "CREATE DATABASE [double quote]default_db[double quote]">>

\* positions in the log of the CREATE DATABASE default_db statements
CreateIdx ==
    {j \in DOMAIN queries : \E k \in DOMAIN VariantOrder : queries[j].q = VariantOrder[k]}

\* C21: the k-th CREATE DATABASE default_db statement of a bootstrap is the k-th
\* variant of the fixed order, and it is issued only after every earlier one
\* raised an error without "already exists" (so none follows a success).
C21_VariantsInOrder ==
    \A j \in CreateIdx :
        LET k == Cardinality({h \in CreateIdx : h <= j})
        IN /\ k \in DOMAIN VariantOrder
           /\ queries[j].q = VariantOrder[k]
           /\ \A h \in CreateIdx :
                 h < j => /\ queries[h].a.r = "raise"
                          /\ "already exists" \notin queries[h].a.v

\* the fourth variant succeeded after the first three raised
C21_Witness ==
    /\ Cardinality(CreateIdx) = 4
    /\ \E j \in CreateIdx :
          /\ queries[j].q = VariantOrder[4]
          /\ queries[j].a.r = "ok"
    /\ pc = "poll_status"

\* the statement at position j is a creation attempt answered "already exists"
AlreadyExistsAt(j) ==
    /\ j \in CreateIdx
    /\ queries[j].a.r = "raise"
    /\ "already exists" \in queries[j].a.v

\* C22: an "already exists" answer to a creation attempt is the last statement
\* of the bootstrap's negotiation: _try_create_database returns True at once, and
\* no variant, workaround, connectivity test or wipe follows.
C22_AlreadyExistsIsSuccess ==
    \A j \in DOMAIN queries :
        AlreadyExistsAt(j) =>
            /\ j = Len(queries)
            /\ pc \notin {"try_create_database", "poll_status", "try_workarounds",
                          "handle_community_edition"}
            /\ pc = "after_create" => ret = TRUE

\* the third variant was answered "already exists" and the creation step
\* returned True
C22_Witness ==
    /\ pc = "after_create"
    /\ ret = TRUE
    /\ Cardinality(CreateIdx) = 3
    /\ AlreadyExistsAt(Len(queries))

\* the statement at position j of log is a creation attempt rejected for an
\* illegal character
NameRejected(log, j) ==
    /\ \E k \in DOMAIN VariantOrder : log[j].q = VariantOrder[k]
    /\ log[j].a.r = "raise"
    /\ {"illegal", "character"} \subseteq log[j].a.v
    /\ "already exists" \notin log[j].a.v

\* C23: a creation attempt rejected for an illegal character never ends the
\* creation step: the next variant is tried, and after the last variant control
\* goes to _try_workarounds within the same call.
C23_NameRejectedFallsThrough ==
    [][(pc = "try_create_database" /\ NameRejected(queries', Len(queries')))
          => IF attempt = Len(VariantOrder)
             THEN pc' = "try_workarounds" /\ stack' = stack
             ELSE pc' = "try_create_database" /\ attempt' = attempt + 1 /\ stack' = stack]_vars

\* the workaround tier was entered from a last variant rejected for an illegal
\* character
C23_Witness ==
    /\ pc = "try_workarounds"
    /\ Cardinality(CreateIdx) = 4
    /\ NameRejected(queries, Len(queries))


\* the statements a step adds to the log
NewStatements == SubSeq(queries', Len(queries) + 1, Len(queries'))

\* strategy (a) of the workaround tier succeeded: the connectivity test
\* returned 1 and the wipe did not raise
DefaultDbTaken(new) ==
    /\ Len(new) >= 2
    /\ new[1].a.r = "ok"
    /\ "1" \in new[1].a.v
    /\ new[2].q = QWipe
    /\ new[2].a.r = "ok"

\* C24: _try_workarounds starts with the connectivity test of strategy (a) and
\* wipes only after it passed; if (a) succeeds it returns True with nothing
\* else issued; otherwise it creates mosdac_db, exactly once and last, and
\* returns True if that succeeds; control reaches the community-edition handler
\* exactly when both (a) and (b) failed.
C24_WorkaroundOrder ==
    [][pc = "try_workarounds" =>
          LET new == NewStatements
              aOk == DefaultDbTaken(new)
              bPos == {j \in DOMAIN new : new[j].q = QCreateMosdac}
              bOk == \E j \in bPos : new[j].a.r = "ok"
              wPos == {j \in DOMAIN new : new[j].q = QWipe}
          IN /\ new # <<>>
             /\ new[1].q = QTest
             /\ wPos \subseteq {2}
             /\ wPos # {} => (new[1].a.r = "ok" /\ "1" \in new[1].a.v)
             /\ aOk => (Len(new) = 2 /\ bPos = {})
             /\ ~aOk => bPos = {Len(new)}
             /\ (aOk \/ bOk) => (pc' = Head(stack) /\ ret' = TRUE)
             /\ (pc' = "handle_community_edition") <=> (~aOk /\ ~bOk)
             /\ (pc' = "handle_community_edition") => stack' = stack]_vars

\* the wipe of strategy (a) and the creation of mosdac_db both raised, and the
\* community-edition handler is next
C24_Witness ==
    /\ pc = "handle_community_edition"
    /\ Len(queries) >= 3
    /\ queries[Len(queries)].q = QCreateMosdac
    /\ queries[Len(queries)].a.r = "raise"
    /\ queries[Len(queries) - 1].q = QWipe
    /\ queries[Len(queries) - 1].a.r = "raise"


\* the SHOW DATABASES of this bootstrap raised
ListingRaised ==
    /\ Len(queries) >= 3
    /\ queries[3].q = QShow
    /\ queries[3].a.r = "raise"

\* what _handle_community_edition returned when it ran right after the listing:
\* the test returned 1 and the wipe did not raise
HandlerSucceeded ==
    /\ Len(queries) = 5
    /\ queries[4].q = QTest
    /\ queries[4].a.r = "ok"
    /\ "1" \in queries[4].a.v
    /\ queries[5].q = QWipe
    /\ queries[5].a.r = "ok"

\* C25: when SHOW DATABASES raises, with any message, the bootstrap issues no
\* CREATE DATABASE statement and enters neither the creation step nor
\* _try_workarounds; the only statements that follow are those of
\* _handle_community_edition, and setup_neo4j_database returns what that
\* handler returned.
C25_ListingErrorGoesToHandler ==
    /\ [](ListingRaised =>
             /\ CreateIdx = {}
             /\ \A j \in DOMAIN queries : queries[j].q # QCreateMosdac
             /\ pc \notin {"try_create_database", "poll_status", "try_workarounds",
                           "after_create"}
             /\ Len(queries) > 3 => queries[4].q = QTest
             /\ Len(queries) <= 5
             /\ pc = "setup_return" => (ret <=> HandlerSucceeded))
    /\ [][(pc = "setup_return" /\ ListingRaised) =>
             IF ret THEN pc' = "build_indices"
                    ELSE pc' = "returned" /\ ret' = FALSE]_vars

\* the listing raised an error that does not say "unsupported", and the handler
\* returned True
C25_Witness ==
    /\ pc = "setup_return"
    /\ ListingRaised
    /\ queries[3].a.v = {"connection"}
    /\ HandlerSucceeded
    /\ ret = TRUE


\* C26: a failing version query does not end setup_neo4j_database: the edition
\* is taken to be Community and the listing comes next, as after a successful
\* version query; and of two runs whose later queries get the same answers,
\* one with a failing and one with a successful version query, both issue the
\* same statements, return the same result and leave the same fallback flag.
C26_VersionFailureChangesNothing ==
    /\ Len(queries) = 2 =>
          /\ queries[2].q = QVersion
          /\ pc = "show_databases"
          /\ queries[2].a.r = "raise" => neo4j_edition = "Community"
    /\ bootHist # <<>> =>
          LET saved == bootHist[1].log
          IN /\ \A j \in DOMAIN queries :
                   j \in DOMAIN saved /\ queries[j].q = saved[j].q
             /\ SetupEnded =>
                   /\ Len(queries) = Len(saved)
                   /\ (pc = "build_indices") = bootHist[1].result
                   /\ using_default_db = bootHist[1].fallback

\* the second run, whose version query failed, ended with True through the
\* creation step like the first, whose version query succeeded
C26_Witness ==
    /\ bootHist # <<>>
    /\ pc = "build_indices"
    /\ bootHist[1].result = TRUE
    /\ Len(queries) > 4
    /\ queries[2].a.r = "raise"
    /\ bootHist[1].log[2].a.r = "ok"
    /\ CreateIdx # {}


\* C27: every episode is submitted through the loader's current client, and
\* the last build_indices_and_constraints on that client succeeded; no episode
\* exists in a run whose current client has no successful build.
C27_IndicesBeforeEpisodes ==
    /\ \A k \in DOMAIN episodes :
          /\ episodes[k].client = graphiti
          /\ clients[episodes[k].client].built
    /\ anyEpisode => clients[graphiti].built
    /\ InDatasetLoop => clients[graphiti].built

\* an episode submitted through the client the retry made and built, the first
\* client's build having failed
C27_Witness ==
    /\ episodes # <<>>
    /\ Len(clients) = 2
    /\ episodes[1].client = 2
    /\ clients[2].built
    /\ ~clients[1].built

\* load_dataset has returned from a file that was found and parsed to
\* non-empty content, and whose record loop ran to the end
DatasetCompleted ==
    /\ Len(fileOps) = 2
    /\ data # <<>>
    /\ \A j \in DOMAIN data : ~Malformed(dataset_name, data[j])

\* C28: the count starts at 0, is raised by one exactly for a dataset that was
\* found, parsed non-empty and looped over to the end, however many of its
\* submissions raised, and by nothing else; it lies between 0 and 5 and is the
\* number reported, out of 5.
C28_CountIsCompletedDatasets ==
    /\ [](total_loaded \in 0..Len(DatasetOrder))
    /\ [](reported # <<>> =>
             /\ reported[1] \in 0..Len(DatasetOrder)
             /\ reported[2] = Len(DatasetOrder))
    /\ [][(pc = "after_initialize" /\ pc' = "load_dataset") => total_loaded' = 0]_vars
    /\ [][(pc = "after_load_dataset" /\ pc' # "main_finally") =>
             total_loaded' = (IF DatasetCompleted THEN total_loaded + 1 ELSE total_loaded)]_vars
    /\ [][(pc = "after_load_dataset" /\ pc' = "display_stats") =>
             reported' = <<total_loaded', Len(DatasetOrder)>>]_vars
    /\ [][(total_loaded' # total_loaded /\ pc' # "main_finally") =>
             pc = "after_load_dataset"]_vars

\* the fifth dataset returned True although both of its submissions raised,
\* after four counted datasets
C28_Witness ==
    /\ pc = "after_load_dataset"
    /\ dsIdx = Len(DatasetOrder)
    /\ total_loaded = 4
    /\ ret = TRUE
    /\ Len(episodes) = 2
    /\ \A k \in DOMAIN episodes : episodes[k].r = "raise"

\* the bootstrap is in progress
Negotiating ==
    pc \in {"initialize_graphiti", "show_databases", "try_create_database", "poll_status",
            "try_workarounds", "handle_community_edition", "setup_return",
            "after_create", "build_indices", "handle_graphiti_database_issue"}

\* C29: once an episode has been submitted the run issues no wipe and no
\* CREATE DATABASE, and does not go back into the bootstrap: the statements
\* logged since the datasets started are never destructive.
C29_NoWipeAfterEpisodes ==
    anyEpisode =>
        /\ \A j \in DOMAIN queries : ~IsDestructive(queries[j].q)
        /\ ~Negotiating

\* a run that wiped the default database during its bootstrap, then submitted
\* episodes and ended normally
C29_Witness ==
    /\ pc = "done"
    /\ exitPath = "normal"
    /\ anyEpisode
    /\ using_default_db
    /\ Len(queries) = 3

\* C30: when main has returned every client made in the run was closed exactly
\* once; until then no episode is submitted through a closed client, and the
\* retry's build is not made on the client the retry closed.
C30_EachClientClosedOnce ==
    /\ pc = "done" => \A c \in DOMAIN clients : clients[c].closes = 1
    /\ pc # "done" => \A k \in DOMAIN episodes : clients[episodes[k].client].closes = 0
    /\ Len(builds) = 2 => builds[2].client # builds[1].client


====
